---- MODULE Spec2Model ----
(***************************************************************************)
(* Bookmark-export normalizer of searchmark-api (app/testing/parsers.py):  *)
(* the Netscape HTML parser as an event-driven state machine, the JSON     *)
(* converters and the format dispatcher parse_bookmarks_file.              *)
(***************************************************************************)
EXTENDS Integers, Sequences, FiniteSets, TLC

\* ------------------------------------------------------------------ bounds
\* Folder objects one parser instance may create.
MaxFolders == 2
\* Characters accumulated in one H3 header.
MaxText == 1
\* DL elements open at the same time in the fed document.
MaxDepth == 2
\* Lexemes in an enumerated file content (the sample files are longer).
MaxContent == 2
\* Nodes in an enumerated folder forest or Chrome node forest.
MaxNodes == 3

\* ------------------------------------------------------------ vocabulary
\* None, as a reference to a Folder object (objects are heap indices >= 1).
None == 0

WhiteSpace == {" ", "\t", "\n"}
TextChars == {"a", " "}
\* Tag names as the tokenizer may hand them over.
Tags == {"H3", "h3", "DL", "dl", "DT"}

VARIABLES
    parser,       \* the NetscapeBookmarkParser instance (fields + the Folder objects it made)
    doc,          \* the structure of the document fed so far (observer)
    path_exists,  \* parse_bookmarks_file input: Path(path).exists()
    suffix,       \* parse_bookmarks_file input: Path(path).suffix
    content,      \* parse_bookmarks_file input: the text of the file
    pc,           \* position of the parse_bookmarks_file call
    out,          \* what the parse_bookmarks_file call produced
    fn            \* a direct call of one of the other functions: name, argument, result

vars == <<parser, doc, path_exists, suffix, content, pc, out, fn>>
parserVars == <<parser, doc>>
dispatchVars == <<path_exists, suffix, content, pc, out>>

\* ---------------------------------------------------------------- strings
\* str.lower() on one character of the alphabets used here.
LowerChar(c) ==
    CASE c = "H" -> "h" [] c = "T" -> "t" [] c = "M" -> "m" [] c = "L" -> "l"
      [] c = "J" -> "j" [] c = "S" -> "s" [] c = "O" -> "o" [] c = "N" -> "n"
      [] c = "X" -> "x" [] OTHER -> c

\* str.lower() on a string held as a sequence of characters.
LowerSeq(s) == [i \in 1..Len(s) |-> LowerChar(s[i])]

\* tag.lower() on a tag name.
LowerTag(tag) ==
    CASE tag = "H3" -> "h3" [] tag = "DL" -> "dl" [] tag = "DT" -> "dt" [] OTHER -> tag

RECURSIVE LStrip(_)
LStrip(s) == IF s # <<>> /\ Head(s) \in WhiteSpace THEN LStrip(Tail(s)) ELSE s

RECURSIVE RStrip(_)
RStrip(s) ==
    IF s # <<>> /\ s[Len(s)] \in WhiteSpace THEN RStrip(SubSeq(s, 1, Len(s) - 1)) ELSE s

\* str.strip()
Strip(s) == RStrip(LStrip(s))

\* str(uuid.uuid4()): a fresh identifier, here labelled by the place of the call.
Uuid4(label) == "uuid-" \o label

\* ------------------------------------------------- NetscapeBookmarkParser
\* NetscapeBookmarkParser.__init__
NewParser ==
    [ folders        |-> <<>>,
      folder_stack   |-> <<>>,
      current_folder |-> None,
      in_h3          |-> FALSE,
      current_text   |-> <<>>,
      heap           |-> <<>> ]

\* Folder(id=str(uuid.uuid4()), name=folder_name, children=[])
NewFolder(p, folder_name) ==
    [ id |-> Uuid4(ToString(Len(p.heap) + 1)), name |-> folder_name, children |-> <<>> ]

\* AttachFolder without its else: the folder also lands in the top-level list.
AttachFolderTwice(p, f) ==
    IF p.folder_stack # <<>>
    THEN LET top == p.folder_stack[Len(p.folder_stack)]
         IN  [p EXCEPT !.heap[top].children = Append(@, f),
                       !.folders = Append(@, f)]
    ELSE [p EXCEPT !.folders = Append(@, f)]

\* AttachFolder inserting at the front of the list instead of appending.
AttachFolderAtFront(p, f) ==
    IF p.folder_stack # <<>>
    THEN LET top == p.folder_stack[Len(p.folder_stack)]
         IN  [p EXCEPT !.heap[top].children = <<f>> \o @]
    ELSE [p EXCEPT !.folders = <<f>> \o @]

\* The attachment of a freshly created folder: to the children of the stack
\* top when the stack is non-empty, else to the top-level list.
AttachFolder(p, f) ==
    IF p.folder_stack # <<>>
    THEN LET top == p.folder_stack[Len(p.folder_stack)]
         IN  [p EXCEPT !.heap[top].children = Append(@, f)]
    ELSE [p EXCEPT !.folders = Append(@, f)]

\* HandleStartTag leaving the pushed folder pending.
HandleStartTagKeepsPending(p, tag0) ==
    LET tag == LowerTag(tag0) IN
    IF tag = "h3"
    THEN [p EXCEPT !.in_h3 = TRUE, !.current_text = <<>>]
    ELSE IF tag = "dl"
    THEN IF p.current_folder # None
         THEN [p EXCEPT !.folder_stack = Append(@, p.current_folder)]
         ELSE p
    ELSE p

\* handle_starttag
HandleStartTag(p, tag0) ==
    LET tag == LowerTag(tag0) IN
    IF tag = "h3"
    THEN [p EXCEPT !.in_h3 = TRUE, !.current_text = <<>>]
    ELSE IF tag = "dl"
    THEN IF p.current_folder # None
         THEN [p EXCEPT !.folder_stack = Append(@, p.current_folder),
                        !.current_folder = None]
         ELSE p
    ELSE p

\* handle_endtag, the h3 branch
EndH3(p) ==
    LET q == [p EXCEPT !.in_h3 = FALSE]
        folder_name == Strip(p.current_text)
    IN  IF folder_name # <<>>
        THEN LET f == Len(q.heap) + 1
                 r == [q EXCEPT !.heap = Append(@, NewFolder(q, folder_name)),
                                !.current_folder = f]
             IN  AttachFolder(r, f)
        ELSE q

\* handle_endtag, the dl branch
EndDl(p) ==
    IF p.folder_stack # <<>>
    THEN [p EXCEPT !.current_folder = p.folder_stack[Len(p.folder_stack)],
                   !.folder_stack = SubSeq(@, 1, Len(@) - 1)]
    ELSE p

\* handle_endtag
HandleEndTag(p, tag0) ==
    LET tag == LowerTag(tag0) IN
    IF tag = "h3" THEN EndH3(p)
    ELSE IF tag = "dl" THEN EndDl(p)
    ELSE p

\* handle_data
HandleData(p, data) ==
    IF p.in_h3 THEN [p EXCEPT !.current_text = @ \o data] ELSE p

\* The forest a list of Folder references denotes (what the caller sees).
RECURSIVE Forest(_, _)
Forest(heap, refs) ==
    [i \in 1..Len(refs) |->
        [ id       |-> heap[refs[i]].id,
          name     |-> heap[refs[i]].name,
          children |-> Forest(heap, heap[refs[i]].children) ]]

\* ------------------------------------------------------- file content
\* The text of a file is a sequence of lexemes: markup tags, the pieces of a
\* doctype declaration, white space, text, and the tokens of JSON.
StartTagLex == {"<H3>", "<DL>"}
EndTagLex == {"</H3>", "</DL>"}
DoctypeLex == {"<!DOCTYPE", "<!doctype"}
MarkerLex == {"NETSCAPE-Bookmark-file-1>", "netscape-bookmark-file-1>"}
JsonStrings ==
    {"roots", "x", "id", "name", "type", "folder", "children", "bookmark_bar",
     "other", "synced", "Other Bookmarks", "Mobile Bookmarks", ""}
Quote(s) == "\"" \o s \o "\""
StrLex == {Quote(s) : s \in JsonStrings}
IsStr(lex) == lex \in StrLex
StrVal(lex) == CHOOSE s \in JsonStrings : Quote(s) = lex

\* The tag name the tokenizer hands to the handlers (already lower case).
TagName(lex) == IF lex \in {"<H3>", "</H3>"} THEN "h3" ELSE "dl"

\* Case folding of a lexeme (re.IGNORECASE).
LowerLex(lex) ==
    CASE lex = "<!DOCTYPE" -> "<!doctype"
      [] lex = "NETSCAPE-Bookmark-file-1>" -> "netscape-bookmark-file-1>"
      [] OTHER -> lex

\* A lexeme that holds the character '>' ends an open declaration.
HasGt(lex) == lex \in StartTagLex \cup EndTagLex \cup MarkerLex

\* HTMLParser.feed(content): the handler calls the tokenizer makes, in order.
\* A "<!doctype" declaration runs to the first '>'; when there is none the
\* rest of the input stays buffered, since close() is never called.
RECURSIVE Feed(_, _)
Feed(p, toks) ==
    IF toks = <<>> THEN p
    ELSE LET c == Head(toks) IN
         IF c \in StartTagLex THEN Feed(HandleStartTag(p, TagName(c)), Tail(toks))
         ELSE IF c \in EndTagLex THEN Feed(HandleEndTag(p, TagName(c)), Tail(toks))
         ELSE IF LowerLex(c) = "<!doctype"
         THEN LET ends == {j \in 2..Len(toks) : HasGt(toks[j])} IN
              IF ends = {} THEN p
              ELSE LET j == CHOOSE k \in ends : \A m \in ends : k <= m
                   IN  Feed(p, SubSeq(toks, j + 1, Len(toks)))
         ELSE Feed(HandleData(p, <<c>>), Tail(toks))

\* ParseNetscapeHtml wrapping what it found in one root folder.
ParseNetscapeHtmlUnderRoot(text) ==
    LET p == Feed(NewParser, text) IN
    <<[id |-> Uuid4("root"), name |-> <<"a">>, children |-> Forest(p.heap, p.folders)]>>

\* parse_netscape_html
ParseNetscapeHtml(text) ==
    LET p == Feed(NewParser, text) IN Forest(p.heap, p.folders)

\* ReSearchDoctype with a literal single space in place of \s+.
ReSearchSingleSpace(text) ==
    \E i \in 1..Len(text) :
        /\ i + 2 <= Len(text)
        /\ LowerLex(text[i]) = "<!doctype"
        /\ text[i + 1] = " "
        /\ LowerLex(text[i + 2]) = "netscape-bookmark-file-1>"

\* re.search(r"<!DOCTYPE\s+NETSCAPE-Bookmark-file", content, re.IGNORECASE)
ReSearchDoctype(text) ==
    \E i \in 1..Len(text) : \E j \in (i + 2)..Len(text) :
        /\ LowerLex(text[i]) = "<!doctype"
        /\ \A k \in (i + 1)..(j - 1) : text[k] \in WhiteSpace
        /\ LowerLex(text[j]) = "netscape-bookmark-file-1>"

\* ------------------------------------------------------------ JSON values
JNull == [t |-> "null", v |-> 0]
JBool(b) == [t |-> "bool", v |-> b]
JNum(n) == [t |-> "num", v |-> n]
JStr(s) == [t |-> "str", v |-> s]
JArr(elems) == [t |-> "arr", v |-> elems]
\* A dict: its items in insertion order, keys distinct.
JObj(items) == [t |-> "obj", v |-> items]

IsDict(d) == d.t = "obj"
HasKey(d, key) == \E i \in 1..Len(d.v) : d.v[i].k = key
Get(d, key) == d.v[CHOOSE i \in 1..Len(d.v) : d.v[i].k = key].val
\* d.get(key, default)
GetOr(d, key, default) == IF HasKey(d, key) THEN Get(d, key) ELSE default

\* dict[key] = val while decoding: a repeated key keeps its place, the last value wins.
ObjPut(items, key, val) ==
    IF \E i \in 1..Len(items) : items[i].k = key
    THEN [i \in 1..Len(items) |->
            IF items[i].k = key THEN [k |-> key, val |-> val] ELSE items[i]]
    ELSE Append(items, [k |-> key, val |-> val])

\* ------------------------------------------------------------- json.loads
RECURSIVE SkipWs(_, _)
SkipWs(toks, i) ==
    IF i <= Len(toks) /\ toks[i] \in WhiteSpace THEN SkipWs(toks, i + 1) ELSE i

DecodeFail == [ok |-> FALSE, val |-> JNull, next |-> 0]
Decoded(val, next) == [ok |-> TRUE, val |-> val, next |-> next]

\* Adjacent digits are one number: the lexeme after the digits from i on.
RECURSIVE DigitRun(_, _)
DigitRun(toks, i) ==
    IF i <= Len(toks) /\ toks[i] = "5" THEN DigitRun(toks, i + 1) ELSE i

\* The number written with n digits 5.
RECURSIVE Fives(_)
Fives(n) == IF n = 0 THEN 0 ELSE 10 * Fives(n - 1) + 5

RECURSIVE ScanOnce(_, _)
RECURSIVE ScanMembers(_, _, _)
RECURSIVE ScanElems(_, _, _)

\* The value that starts at lexeme i.
ScanOnce(toks, i) ==
    IF i > Len(toks) THEN DecodeFail
    ELSE LET c == toks[i] IN
         IF IsStr(c) THEN Decoded(JStr(StrVal(c)), i + 1)
         ELSE IF c = "5"
         THEN Decoded(JNum(Fives(DigitRun(toks, i) - i)), DigitRun(toks, i))
         ELSE IF c = "null" THEN Decoded(JNull, i + 1)
         ELSE IF c = "{"
         THEN LET j == SkipWs(toks, i + 1) IN
              IF j <= Len(toks) /\ toks[j] = "}" THEN Decoded(JObj(<<>>), j + 1)
              ELSE ScanMembers(toks, j, <<>>)
         ELSE IF c = "["
         THEN LET j == SkipWs(toks, i + 1) IN
              IF j <= Len(toks) /\ toks[j] = "]" THEN Decoded(JArr(<<>>), j + 1)
              ELSE ScanElems(toks, j, <<>>)
         ELSE DecodeFail

\* The members of an object from the key at lexeme i on.
ScanMembers(toks, i, items) ==
    IF i > Len(toks) \/ ~IsStr(toks[i]) THEN DecodeFail
    ELSE LET j == SkipWs(toks, i + 1) IN
         IF j > Len(toks) \/ toks[j] # ":" THEN DecodeFail
         ELSE LET r == ScanOnce(toks, SkipWs(toks, j + 1)) IN
              IF ~r.ok THEN DecodeFail
              ELSE LET k == SkipWs(toks, r.next)
                       its == ObjPut(items, StrVal(toks[i]), r.val)
                   IN  IF k > Len(toks) THEN DecodeFail
                       ELSE IF toks[k] = "}" THEN Decoded(JObj(its), k + 1)
                       ELSE IF toks[k] = ","
                       THEN ScanMembers(toks, SkipWs(toks, k + 1), its)
                       ELSE DecodeFail

\* The elements of an array from the value at lexeme i on.
ScanElems(toks, i, elems) ==
    LET r == ScanOnce(toks, i) IN
    IF ~r.ok THEN DecodeFail
    ELSE LET k == SkipWs(toks, r.next) IN
         IF k > Len(toks) THEN DecodeFail
         ELSE IF toks[k] = "]" THEN Decoded(JArr(Append(elems, r.val)), k + 1)
         ELSE IF toks[k] = ","
         THEN ScanElems(toks, SkipWs(toks, k + 1), Append(elems, r.val))
         ELSE DecodeFail

\* json.loads(content): ok = FALSE stands for json.JSONDecodeError.
JsonLoads(toks) ==
    LET r == ScanOnce(toks, SkipWs(toks, 1)) IN
    IF ~r.ok THEN DecodeFail
    ELSE IF SkipWs(toks, r.next) # Len(toks) + 1 THEN DecodeFail
    ELSE r

\* ------------------------------------------------- outcomes of a call
\* A call returns a value or raises; raised names the exception class.
Ok(v) == [raised |-> "none", value |-> v]
Raise(e) == [raised |-> e, value |-> <<>>]

\* bool(v) of a decoded value
Truthy(v) ==
    CASE v.t = "null" -> FALSE
      [] v.t = "bool" -> v.v
      [] v.t = "num" -> v.v # 0
      [] v.t = "str" -> v.v # ""
      [] OTHER -> v.v # <<>>

\* for x in v: a list yields its elements, a dict its keys, a string its
\* characters (held here as one string item when non-empty); anything else
\* is not iterable.
IterItems(v) ==
    CASE v.t = "arr" -> Ok(v.v)
      [] v.t = "obj" -> Ok([i \in 1..Len(v.v) |-> JStr(v.v[i].k)])
      [] v.t = "str" -> Ok(IF v.v = "" THEN <<>> ELSE <<JStr(v.v)>>)
      [] OTHER -> Raise("TypeError")

\* key in data
InOp(data, key) ==
    CASE data.t = "obj" -> Ok(HasKey(data, key))
      [] data.t = "arr" -> Ok(\E i \in 1..Len(data.v) :
                                data.v[i].t = "str" /\ data.v[i].v = key)
      [] data.t = "str" -> Ok(data.v = key)
      [] OTHER -> Raise("TypeError")

\* data[key] with a string key
Subscript(data, key) ==
    IF data.t = "obj"
    THEN IF HasKey(data, key) THEN Ok(Get(data, key)) ELSE Raise("KeyError")
    ELSE Raise("TypeError")

\* ------------------------------------------------------ parse_chrome_json
RECURSIVE ConvertNode(_, _)
RECURSIVE ConvertChildren(_, _, _, _)

\* ConvertNode without the type test: every node is kept.
ConvertNodeAnyType(node, path) ==
    IF node.t # "obj" THEN Raise("AttributeError")
    ELSE LET it == IterItems(GetOr(node, "children", JArr(<<>>))) IN
         IF it.raised # "none" THEN it
         ELSE LET cs == ConvertChildren(it.value, 1, path, <<>>) IN
              IF cs.raised # "none" THEN cs
              ELSE LET id == GetOr(node, "id", JStr(Uuid4(path)))
                       name == GetOr(node, "name", JStr("Unnamed"))
                   IN  IF id.t # "str" \/ name.t # "str"
                       THEN Raise("ValidationError")
                       ELSE Ok(<<[id |-> id.v, name |-> name.v,
                                  children |-> cs.value]>>)

\* convert_node: value is <<>> for None, <<folder>> for a Folder.
ConvertNode(node, path) ==
    IF node.t # "obj" THEN Raise("AttributeError")
    ELSE IF ~(HasKey(node, "type") /\ Get(node, "type").t = "str"
                /\ Get(node, "type").v = "folder")
    THEN Ok(<<>>)
    ELSE LET it == IterItems(GetOr(node, "children", JArr(<<>>))) IN
         IF it.raised # "none" THEN it
         ELSE LET cs == ConvertChildren(it.value, 1, path, <<>>) IN
              IF cs.raised # "none" THEN cs
              ELSE LET id == GetOr(node, "id", JStr(Uuid4(path)))
                       name == GetOr(node, "name", JStr("Unnamed"))
                   IN  IF id.t # "str" \/ name.t # "str"
                       THEN Raise("ValidationError")
                       ELSE Ok(<<[id |-> id.v, name |-> name.v,
                                  children |-> cs.value]>>)

\* The loop over children: converts each, keeps the folders.
ConvertChildren(items, i, path, acc) ==
    IF i > Len(items) THEN Ok(acc)
    ELSE LET r == ConvertNode(items[i], path \o "/" \o ToString(i)) IN
         IF r.raised # "none" THEN r
         ELSE ConvertChildren(items, i + 1, path, acc \o r.value)

RootNames == <<"bookmark_bar", "other", "synced">>
PlaceholderNames == {"Other Bookmarks", "Mobile Bookmarks"}

\* ChromeRoots suppressing a root by its name alone, children or not.
RECURSIVE ChromeRootsByNameOnly(_, _, _)
ChromeRootsByNameOnly(roots, i, acc) ==
    IF i > Len(RootNames) THEN Ok(acc)
    ELSE IF roots.t # "obj" THEN Raise("AttributeError")
    ELSE LET root == GetOr(roots, RootNames[i], JNull) IN
         IF ~Truthy(root) THEN ChromeRootsByNameOnly(roots, i + 1, acc)
         ELSE LET r == ConvertNode(root, RootNames[i]) IN
              IF r.raised # "none" THEN r
              ELSE IF r.value # <<>> /\ r.value[1].name \notin PlaceholderNames
              THEN ChromeRootsByNameOnly(roots, i + 1, acc \o r.value)
              ELSE ChromeRootsByNameOnly(roots, i + 1, acc)

\* The loop over the root slots.
RECURSIVE ChromeRoots(_, _, _)
ChromeRoots(roots, i, acc) ==
    IF i > Len(RootNames) THEN Ok(acc)
    ELSE IF roots.t # "obj" THEN Raise("AttributeError")
    ELSE LET root == GetOr(roots, RootNames[i], JNull) IN
         IF ~Truthy(root) THEN ChromeRoots(roots, i + 1, acc)
         ELSE LET r == ConvertNode(root, RootNames[i]) IN
              IF r.raised # "none" THEN r
              ELSE IF r.value # <<>>
                      /\ (r.value[1].children # <<>>
                            \/ r.value[1].name \notin PlaceholderNames)
              THEN ChromeRoots(roots, i + 1, acc \o r.value)
              ELSE ChromeRoots(roots, i + 1, acc)

\* parse_chrome_json
ParseChromeJson(data) ==
    LET hasRoots == InOp(data, "roots") IN
    IF hasRoots.raised # "none" THEN hasRoots
    ELSE IF hasRoots.value
    THEN LET roots == Subscript(data, "roots") IN
         IF roots.raised # "none" THEN roots
         ELSE ChromeRoots(roots.value, 1, <<>>)
    ELSE IF InOp(data, "children").value
    THEN LET kids == Subscript(data, "children") IN
         IF kids.raised # "none" THEN kids
         ELSE LET it == IterItems(kids.value) IN
              IF it.raised # "none" THEN it
              ELSE ConvertChildren(it.value, 1, "children", <<>>)
    ELSE IF InOp(data, "name").value /\ InOp(data, "children").value
    THEN ConvertNode(data, "data")
    ELSE Ok(<<>>)

\* ------------------------------------------------------ parse_simple_json
RECURSIVE ModelValidate(_)
RECURSIVE ValidateAll(_, _, _)

\* Folder.model_validate(item): id and name are required strings, children
\* an optional list of the same shape.
ModelValidate(item) ==
    IF item.t # "obj" THEN Raise("ValidationError")
    ELSE IF ~(HasKey(item, "id") /\ Get(item, "id").t = "str")
    THEN Raise("ValidationError")
    ELSE IF ~(HasKey(item, "name") /\ Get(item, "name").t = "str")
    THEN Raise("ValidationError")
    ELSE IF ~HasKey(item, "children")
    THEN Ok([id |-> Get(item, "id").v, name |-> Get(item, "name").v,
             children |-> <<>>])
    ELSE IF Get(item, "children").t # "arr" THEN Raise("ValidationError")
    ELSE LET cs == ValidateAll(Get(item, "children").v, 1, <<>>) IN
         IF cs.raised # "none" THEN cs
         ELSE Ok([id |-> Get(item, "id").v, name |-> Get(item, "name").v,
                  children |-> cs.value])

\* The validation of a children list: one invalid element fails the list.
ValidateAll(items, i, acc) ==
    IF i > Len(items) THEN Ok(acc)
    ELSE LET r == ModelValidate(items[i]) IN
         IF r.raised # "none" THEN r
         ELSE ValidateAll(items, i + 1, Append(acc, r.value))

\* KeepValid ending the loop at the first element that fails validation.
RECURSIVE KeepValidUntilFailure(_, _, _)
KeepValidUntilFailure(items, i, acc) ==
    IF i > Len(items) THEN acc
    ELSE LET r == ModelValidate(items[i]) IN
         IF r.raised # "none" THEN acc
         ELSE KeepValidUntilFailure(items, i + 1, Append(acc, r.value))

\* The loop of parse_simple_json: an element that fails validation is skipped.
RECURSIVE KeepValid(_, _, _)
KeepValid(items, i, acc) ==
    IF i > Len(items) THEN acc
    ELSE LET r == ModelValidate(items[i]) IN
         IF r.raised # "none" THEN KeepValid(items, i + 1, acc)
         ELSE KeepValid(items, i + 1, Append(acc, r.value))

\* parse_simple_json
ParseSimpleJson(data) ==
    LET it == IF data.t = "obj" THEN Ok(<<data>>) ELSE IterItems(data) IN
    IF it.raised # "none" THEN it
    ELSE Ok(KeepValid(it.value, 1, <<>>))

\* ---------------------------------------------------- extract_folder_names
\* extract_folder_names(folders, prefix): paths are strings.
RECURSIVE ExtractFolderNames(_, _)
ExtractFolderNames(folders, prefix) ==
    IF folders = <<>> THEN <<>>
    ELSE LET folder == Head(folders)
             current_path == IF prefix # "" THEN prefix \o "/" \o folder.name
                             ELSE folder.name
             below == IF folder.children # <<>>
                      THEN ExtractFolderNames(folder.children, current_path)
                      ELSE <<>>
         IN  <<current_path>> \o below \o ExtractFolderNames(Tail(folders), prefix)

\* --------------------------------------------------------- folders_to_json
\* ModelDump leaving out a field that holds its default (an empty children list).
RECURSIVE ModelDumpExcludeDefaults(_)
ModelDumpExcludeDefaults(f) ==
    JObj(<<[k |-> "id", val |-> JStr(f.id)], [k |-> "name", val |-> JStr(f.name)]>>
         \o (IF f.children = <<>> THEN <<>>
             ELSE <<[k |-> "children",
                     val |-> JArr([i \in 1..Len(f.children) |->
                                     ModelDumpExcludeDefaults(f.children[i])])]>>))

\* Folder.model_dump(): a dict of the three fields in declaration order.
RECURSIVE ModelDump(_)
ModelDump(f) ==
    JObj(<<[k |-> "id", val |-> JStr(f.id)],
           [k |-> "name", val |-> JStr(f.name)],
           [k |-> "children",
            val |-> JArr([i \in 1..Len(f.children) |-> ModelDump(f.children[i])])]>>)

\* The line break and indentation json.dumps(indent=2) writes at a nesting level.
NewlineIndent(level) == <<"\n">> \o [i \in 1..(2 * level) |-> " "]

\* json.dumps(val, indent=2) of strings, lists and dicts, as lexemes.
RECURSIVE JsonDumps(_, _)
RECURSIVE DumpElems(_, _, _)
RECURSIVE DumpMembers(_, _, _)
JsonDumps(val, level) ==
    CASE val.t = "str" -> <<Quote(val.v)>>
      [] val.t = "null" -> <<"null">>
      [] val.t = "arr" ->
            IF val.v = <<>> THEN <<"[", "]">>
            ELSE <<"[">> \o DumpElems(val.v, 1, level + 1)
                       \o NewlineIndent(level) \o <<"]">>
      [] val.t = "obj" ->
            IF val.v = <<>> THEN <<"{", "}">>
            ELSE <<"{">> \o DumpMembers(val.v, 1, level + 1)
                       \o NewlineIndent(level) \o <<"}">>

DumpElems(elems, i, level) ==
    IF i > Len(elems) THEN <<>>
    ELSE NewlineIndent(level) \o JsonDumps(elems[i], level)
            \o (IF i < Len(elems) THEN <<",">> ELSE <<>>)
            \o DumpElems(elems, i + 1, level)

DumpMembers(items, i, level) ==
    IF i > Len(items) THEN <<>>
    ELSE NewlineIndent(level) \o <<Quote(items[i].k), ":", " ">>
            \o JsonDumps(items[i].val, level)
            \o (IF i < Len(items) THEN <<",">> ELSE <<>>)
            \o DumpMembers(items, i + 1, level)

\* folders_to_json
FoldersToJson(folders) ==
    JsonDumps(JArr([i \in 1..Len(folders) |-> ModelDump(folders[i])]), 0)

\* app/parsers.py parse_bookmarks_file on the text of the file: the strict
\* decoder of what folders_to_json writes.
AppParseBookmarksFile(text) ==
    LET data == JsonLoads(text) IN
    IF ~data.ok THEN Raise("JSONDecodeError")
    ELSE LET items == IF IsDict(data.val) THEN GetOr(data.val, "folders", data.val)
                      ELSE data.val
             it == IterItems(items)
         IN  IF it.raised # "none" THEN it
             ELSE ValidateAll(it.value, 1, <<>>)

\* --------------------------------------------------- parse_bookmarks_file
\* What a call produced: the exception class raised ("none": it returned),
\* the failure it stands for, the forest returned, and the calls it made.
Returned(r, calls) ==
    [raised |-> r.raised, msg |-> "", value |-> r.value, calls |-> calls]
Failed(e, msg, calls) ==
    [raised |-> e, msg |-> msg, value |-> <<>>, calls |-> calls]

DotHtml == <<".", "h", "t", "m", "l">>
DotHtm == <<".", "h", "t", "m">>
DotJson == <<".", "j", "s", "o", "n">>

\* SuffixOf without the case folding.
SuffixOfNoLower(sfx) == sfx

\* suffix = path.suffix.lower()
SuffixOf(sfx) == LowerSeq(sfx)

\* IsChrome without the roots test: every object goes to the Chrome parser.
IsChromeAnyDict(data) == IsDict(data)

\* isinstance(data, dict) and "roots" in data
IsChrome(data) == IsDict(data) /\ HasKey(data, "roots")

\* The roots-key branching on a decoded value.
JsonDispatch(data, calls) ==
    IF IsChrome(data)
    THEN Returned(ParseChromeJson(data), Append(calls, "parse_chrome_json"))
    ELSE Returned(ParseSimpleJson(data), Append(calls, "parse_simple_json"))

\* The .html / .htm branch.
HtmlBranch(text, calls) ==
    LET folders == ParseNetscapeHtml(text)
        cs == Append(calls, "parse_netscape_html")
    IN  IF folders = <<>>
        THEN Failed("ValueError", "No folders found in HTML bookmark file", cs)
        ELSE Returned(Ok(folders), cs)

\* The .json branch.
JsonBranch(text, calls) ==
    LET data == JsonLoads(text)
        cs == Append(calls, "json.loads")
    IN  IF ~data.ok
        THEN Failed("ValueError", "Invalid JSON in bookmark file", cs)
        ELSE JsonDispatch(data.val, cs)

\* UnknownFormat falling through to an empty result instead of raising.
UnknownFormatReturnsEmpty(calls) == Returned(Ok(<<>>), calls)

\* raise ValueError(f"Cannot detect bookmark format for file: {path}")
UnknownFormat(calls) ==
    Failed("ValueError", "Cannot detect bookmark format for file", calls)

\* The branch for every other suffix: sniff the doctype, then try JSON.
SniffBranch(text, calls) ==
    LET cs == Append(calls, "re.search") IN
    IF ReSearchDoctype(text)
    THEN Returned(Ok(ParseNetscapeHtml(text)), Append(cs, "parse_netscape_html"))
    ELSE LET data == JsonLoads(text)
             cj == Append(cs, "json.loads")
         IN  IF data.ok THEN JsonDispatch(data.val, cj)
             ELSE UnknownFormat(cj)

\* parse_bookmarks_file, after the existence check.
Dispatch(sfx, text) ==
    LET calls == <<"read_text">>
        sfxl == SuffixOf(sfx)
    IN  IF sfxl \in {DotHtml, DotHtm} THEN HtmlBranch(text, calls)
        ELSE IF sfxl = DotJson THEN JsonBranch(text, calls)
        ELSE SniffBranch(text, calls)

\* ParseBookmarksFile with the existence check after the .html branch.
ParseBookmarksFileLateCheck(exists, sfx, text) ==
    IF SuffixOf(sfx) \in {DotHtml, DotHtm} THEN HtmlBranch(text, <<"read_text">>)
    ELSE IF ~exists
    THEN Failed("FileNotFoundError", "Bookmark file not found", <<>>)
    ELSE Dispatch(sfx, text)

\* parse_bookmarks_file
ParseBookmarksFile(exists, sfx, text) ==
    IF ~exists
    THEN Failed("FileNotFoundError", "Bookmark file not found", <<>>)
    ELSE Dispatch(sfx, text)

\* --------------------------------------------------- the document observer
\* The innermost open DL that belongs to a folder names that folder; a header
\* outside every such DL is top-level.
RECURSIVE Innermost(_)
Innermost(open) ==
    IF open = <<>> THEN None
    ELSE IF open[Len(open)] # None THEN open[Len(open)]
    ELSE Innermost(SubSeq(open, 1, Len(open) - 1))

NewDoc ==
    [ open     |-> <<>>,    \* per open DL, the folder it belongs to (None: no folder)
      hdr      |-> None,    \* the folder of the header right before this point
      balanced |-> TRUE,    \* no unmatched or interleaved H3/DL tag so far
      parent   |-> <<>>,    \* per folder, the folder whose DL encloses its H3
      afterPop |-> FALSE ]  \* a DL close popped the stack and no H3 closed since

ObserveStart(d, p, tag0) ==
    LET tag == LowerTag(tag0) IN
    IF tag = "h3" THEN [d EXCEPT !.balanced = @ /\ ~p.in_h3]
    ELSE IF tag = "dl"
    THEN [d EXCEPT !.open = Append(@, d.hdr), !.hdr = None,
                   !.balanced = @ /\ ~p.in_h3]
    ELSE d

ObserveEnd(d, p, q, tag0) ==
    LET tag == LowerTag(tag0) IN
    IF tag = "h3"
    THEN LET e == [d EXCEPT !.balanced = @ /\ p.in_h3, !.afterPop = FALSE]
         IN  IF Len(q.heap) > Len(p.heap)
             THEN [e EXCEPT !.hdr = Len(q.heap),
                            !.parent = Append(@, Innermost(d.open))]
             ELSE e
    ELSE IF tag = "dl"
    THEN [d EXCEPT !.balanced = @ /\ d.open # <<>> /\ ~p.in_h3,
                   !.open = IF @ = <<>> THEN @ ELSE SubSeq(@, 1, Len(@) - 1),
                   !.hdr = None,
                   !.afterPop = @ \/ p.folder_stack # <<>>]
    ELSE d

\* ------------------------------------------- the parser as a state machine
IdleOut == [raised |-> "idle", msg |-> "", value |-> <<>>, calls |-> <<>>]

DispatchIdle ==
    /\ path_exists = FALSE
    /\ suffix = <<>>
    /\ content = <<>>
    /\ pc = "idle"
    /\ out = IdleOut

\* No direct call of a converter is under way.
FnIdle == [op |-> "none", pc |-> "idle", arg |-> <<>>, ret |-> <<>>, back |-> <<>>]

Init ==
    /\ parser = NewParser
    /\ doc = NewDoc
    /\ DispatchIdle
    /\ fn = FnIdle

\* HTMLParser.feed reaches a start tag.
StartTag(tag) ==
    /\ LowerTag(tag) = "dl" => Len(doc.open) < MaxDepth
    /\ parser' = HandleStartTag(parser, tag)
    /\ doc' = ObserveStart(doc, parser, tag)
    /\ UNCHANGED <<dispatchVars, fn>>

\* HTMLParser.feed reaches an end tag.
EndTag(tag) ==
    /\ (LowerTag(tag) = "h3" /\ Strip(parser.current_text) # <<>>)
          => Len(parser.heap) < MaxFolders
    /\ parser' = HandleEndTag(parser, tag)
    /\ doc' = ObserveEnd(doc, parser, HandleEndTag(parser, tag), tag)
    /\ UNCHANGED <<dispatchVars, fn>>

\* HTMLParser.feed reaches character data.
Data(c) ==
    /\ parser.in_h3 => Len(parser.current_text) < MaxText
    /\ parser' = HandleData(parser, <<c>>)
    /\ UNCHANGED <<doc, dispatchVars, fn>>

Next ==
    \/ \E tag \in Tags : StartTag(tag)
    \/ \E tag \in Tags : EndTag(tag)
    \/ \E c \in TextChars : Data(c)

Spec == Init /\ [][Next]_vars

\* ------------------------------------- parse_bookmarks_file as a machine
\* Path(path).suffix of the files tried.
Suffixes ==
    { <<>>,
      <<".", "h", "t", "m", "l">>, <<".", "H", "T", "M", "L">>,
      <<".", "h", "t", "m">>, <<".", "H", "t", "m">>,
      <<".", "j", "s", "o", "n">>, <<".", "J", "S", "O", "N">>,
      <<".", "t", "x", "t">> }

Lexemes ==
    { " ", "\t", "<H3>", "</H3>", "<DL>", "</DL>", "a",
      "<!DOCTYPE", "<!doctype", "NETSCAPE-Bookmark-file-1>", "netscape-bookmark-file-1>",
      "{", "}", "[", "]", ":", ",", "5", "null", Quote("roots"), Quote("x") }

\* An object with the given members, as lexemes.
RECURSIVE JoinWith(_, _)
JoinWith(parts, sep) ==
    IF Len(parts) = 0 THEN <<>>
    ELSE IF Len(parts) = 1 THEN parts[1]
    ELSE parts[1] \o <<sep>> \o JoinWith(Tail(parts), sep)
Member(key, val) == <<Quote(key), ":">> \o val
ObjText(members) == <<"{">> \o JoinWith(members, ",") \o <<"}">>
ArrText(elems) == <<"[">> \o JoinWith(elems, ",") \o <<"]">>
StrText(str) == <<Quote(str)>>

FolderXText == ObjText(<<Member("id", StrText("x")), Member("name", StrText("x"))>>)
ChromeBarText ==
    ObjText(<<Member("type", StrText("folder")), Member("id", StrText("x")),
              Member("name", StrText("x"))>>)

\* Whole files: exports like those of the tests, and malformed ones.
SampleFiles ==
    { <<"<!DOCTYPE", " ", "NETSCAPE-Bookmark-file-1>", "<DL>", "<H3>", "a", "</H3>",
        "<DL>", "<H3>", " ", "a", "</H3>", "</DL>", "</DL>">>,
      <<"<!doctype", "\t", "netscape-bookmark-file-1>", "<H3>", "a", "</H3>">>,
      <<"<!DOCTYPE", " ", " ", "NETSCAPE-Bookmark-file-1>">>,
      <<"<!DOCTYPE", " ", "NETSCAPE-Bookmark-file-1>">>,
      <<"<!DOCTYPE", " ", "NETSCAPE-Bookmark-file-1>", "[", "]">>,
      <<"<H3>", "a", "</H3>">>,
      <<"<H3>", "a", "</H3>", "<DL>", "<H3>", "a", "</H3>", "</DL>">>,
      ObjText(<<Member("roots", ObjText(<<>>))>>),
      ObjText(<<Member("roots", <<"5">>)>>),
      ObjText(<<Member("roots", ObjText(<<Member("bookmark_bar", ChromeBarText)>>))>>),
      ObjText(<<Member("roots", ObjText(<<Member("bookmark_bar", <<"5">>)>>))>>),
      ObjText(<<Member("children", ArrText(<<ChromeBarText>>))>>),
      ArrText(<<FolderXText, <<"5">>, FolderXText>>),
      FolderXText,
      ArrText(<<<<"5">>>>),
      <<" ">> \o ArrText(<<>>) \o <<"\t">>,
      ObjText(<<Member("x", <<"5">>)>>) }

RECURSIVE SeqsUpTo(_)
SeqsUpTo(n) ==
    IF n = 0 THEN {<<>>}
    ELSE LET shorter == SeqsUpTo(n - 1) IN
         shorter \cup {Append(t, x) : t \in {u \in shorter : Len(u) = n - 1}, x \in Lexemes}

Contents == SeqsUpTo(MaxContent) \cup SampleFiles

InitDispatch ==
    /\ parser = NewParser
    /\ doc = NewDoc
    /\ path_exists \in BOOLEAN
    /\ suffix \in Suffixes
    /\ content \in (IF path_exists THEN Contents ELSE {<<>>})
    /\ pc = "call"
    /\ out = IdleOut
    /\ fn = FnIdle

\* One call of parse_bookmarks_file(path).
Call ==
    /\ pc = "call"
    /\ out' = ParseBookmarksFile(path_exists, suffix, content)
    /\ pc' = "done"
    /\ UNCHANGED <<parserVars, path_exists, suffix, content, fn>>

NextDispatch == Call

SpecDispatch == InitDispatch /\ [][NextDispatch]_vars

\* ------------------------------------- the converters called directly
\* Ordered forests of exactly n labelled nodes: each node a label and its kids.
RECURSIVE Shapes(_, _)
Shapes(n, labels) ==
    IF n = 0 THEN {<<>>}
    ELSE UNION {{<<[lab |-> l, kids |-> ks]>> \o rest :
                    l \in labels, ks \in Shapes(j - 1, labels),
                    rest \in Shapes(n - j, labels)} : j \in 1..n}

ShapesUpTo(n, labels) == UNION {Shapes(k, labels) : k \in 0..n}

\* Folder objects: names may be empty or repeated, ids may repeat.
FolderLabels ==
    {[id |-> "id", name |-> ""], [id |-> "x", name |-> "x"], [id |-> "x", name |-> "name"]}

RECURSIVE FoldersOf(_)
FoldersOf(shape) ==
    [i \in 1..Len(shape) |->
        [id |-> shape[i].lab.id, name |-> shape[i].lab.name,
         children |-> FoldersOf(shape[i].kids)]]

FolderForests == {FoldersOf(sh) : sh \in ShapesUpTo(MaxNodes, FolderLabels)}

\* Chrome nodes: a folder with id and name, a folder with neither, a bookmark.
FolderTyped == [k |-> "type", val |-> JStr("folder")]
ChromeLabels ==
    { <<FolderTyped, [k |-> "id", val |-> JStr("x")], [k |-> "name", val |-> JStr("x")]>>,
      <<FolderTyped>>,
      <<[k |-> "type", val |-> JStr("url")], [k |-> "id", val |-> JStr("id")],
        [k |-> "name", val |-> JStr("name")]>> }

\* A node of the export; a childless node with no name has no children key.
RECURSIVE ChromeNodes(_)
ChromeNodes(shape) ==
    [i \in 1..Len(shape) |->
        IF shape[i].kids = <<>> /\ shape[i].lab = <<FolderTyped>>
        THEN JObj(shape[i].lab)
        ELSE JObj(shape[i].lab \o
                  <<[k |-> "children", val |-> JArr(ChromeNodes(shape[i].kids))]>>)]

ChromeForests == {ChromeNodes(sh) : sh \in ShapesUpTo(MaxNodes, ChromeLabels)}

\* Documents that expose a bare children array.
ChildrenDocs == {JObj(<<[k |-> "children", val |-> JArr(ns)]>>) : ns \in ChromeForests}

\* Documents that are one node.
NodeDocs == {ns[1] : ns \in {f \in ChromeForests : Len(f) = 1}}

\* What a root slot of an export may hold; the root's id names its slot.
ChromeLeaf == JObj(<<FolderTyped, [k |-> "id", val |-> JStr("x")],
                     [k |-> "name", val |-> JStr("x")], [k |-> "children", val |-> JArr(<<>>)]>>)
UrlLeaf == JObj(<<[k |-> "type", val |-> JStr("url")], [k |-> "id", val |-> JStr("id")],
                  [k |-> "name", val |-> JStr("name")]>>)
RootNode(slot, type, name, kids) ==
    JObj(<<[k |-> "type", val |-> JStr(type)], [k |-> "id", val |-> JStr(slot)],
           [k |-> "name", val |-> JStr(name)], [k |-> "children", val |-> JArr(kids)]>>)
RootChoices(slot) ==
    {RootNode(slot, "folder", name, kids) :
        name \in {"Other Bookmarks", "Mobile Bookmarks", "x"},
        kids \in {<<>>, <<ChromeLeaf>>, <<UrlLeaf>>}}
    \cup {RootNode(slot, "url", "x", <<ChromeLeaf>>), JNull, JNum(5)}

\* Documents with a roots object: each slot absent or one of its choices.
RECURSIVE RootsMembers(_)
RootsMembers(i) ==
    IF i > Len(RootNames) THEN {<<>>}
    ELSE LET rest == RootsMembers(i + 1) IN
         rest \cup {<<[k |-> RootNames[i], val |-> r]>> \o ms :
                        r \in RootChoices(RootNames[i]), ms \in rest}
RootsDocs == {JObj(<<[k |-> "roots", val |-> JObj(ms)]>>) : ms \in RootsMembers(1)}

\* Documents with malformed parts.
MalformedDocs ==
    { JNum(5), JNull, JArr(<<>>), JStr("roots"), JObj(<<>>),
      JObj(<<[k |-> "roots", val |-> JNum(5)]>>),
      JObj(<<[k |-> "roots", val |-> JArr(<<>>)]>>),
      JObj(<<[k |-> "children", val |-> JNum(5)]>>),
      JObj(<<[k |-> "children", val |-> JArr(<<JNum(5)>>)]>>),
      JObj(<<[k |-> "children", val |-> JArr(<<JObj(<<FolderTyped, [k |-> "id", val |-> JNum(5)]>>)>>)]>>),
      JObj(<<[k |-> "children", val |-> JArr(<<JObj(<<FolderTyped, [k |-> "name", val |-> JNull]>>)>>)]>>),
      JObj(<<[k |-> "children", val |-> JArr(<<JObj(<<FolderTyped, [k |-> "children", val |-> JNum(5)]>>)>>)]>>) }

ChromeDocs == RootsDocs \cup ChildrenDocs \cup NodeDocs \cup MalformedDocs

\* Elements of a generic JSON array: folders, and values that are not.
SimpleItems ==
    { JObj(<<[k |-> "id", val |-> JStr("x")], [k |-> "name", val |-> JStr("x")]>>),
      JObj(<<[k |-> "id", val |-> JStr("id")], [k |-> "name", val |-> JStr("name")],
             [k |-> "children", val |-> JArr(<<>>)]>>),
      JObj(<<[k |-> "id", val |-> JStr("x")], [k |-> "name", val |-> JStr("")],
             [k |-> "children",
              val |-> JArr(<<JObj(<<[k |-> "id", val |-> JStr("id")],
                                    [k |-> "name", val |-> JStr("x")]>>)>>)]>>),
      JObj(<<FolderTyped, [k |-> "id", val |-> JStr("id")], [k |-> "name", val |-> JStr("x")]>>),
      JNum(5),
      JStr("x"),
      JObj(<<>>),
      JObj(<<[k |-> "name", val |-> JStr("x")]>>),
      JObj(<<[k |-> "id", val |-> JNum(5)], [k |-> "name", val |-> JStr("x")]>>),
      JObj(<<[k |-> "id", val |-> JStr("x")], [k |-> "name", val |-> JStr("x")],
             [k |-> "children", val |-> JNull]>>),
      JObj(<<[k |-> "id", val |-> JStr("x")], [k |-> "name", val |-> JStr("x")],
             [k |-> "children", val |-> JArr(<<JNum(5)>>)]>>) }

\* The data handed to parse_simple_json: an array of elements, or one object.
SimpleDocs ==
    {JArr(<<>>)} \cup {JArr(<<a>>) : a \in SimpleItems}
    \cup {JArr(<<a, b>>) : a, b \in SimpleItems}
    \cup {JArr(<<a, b, c>>) : a, b, c \in SimpleItems}
    \cup {a \in SimpleItems : IsDict(a)}

FnCall(op, arg) == [op |-> op, pc |-> "call", arg |-> arg, ret |-> <<>>, back |-> <<>>]

InitFn ==
    /\ parser = NewParser
    /\ doc = NewDoc
    /\ DispatchIdle
    /\ fn \in {FnCall("parse_netscape_html", t) : t \in Contents}
           \cup {FnCall("parse_chrome_json", d) : d \in ChromeDocs}
           \cup {FnCall("parse_simple_json", d) : d \in SimpleDocs}
           \cup {FnCall("extract_folder_names", f) : f \in FolderForests}
           \cup {FnCall("folders_to_json", f) : f \in FolderForests}

\* parse_netscape_html(content)
CallParseNetscapeHtml ==
    /\ fn.op = "parse_netscape_html" /\ fn.pc = "call"
    /\ fn' = [fn EXCEPT !.ret = Ok(ParseNetscapeHtml(fn.arg)), !.pc = "done"]
    /\ UNCHANGED <<parserVars, dispatchVars>>

\* parse_chrome_json(data)
CallParseChromeJson ==
    /\ fn.op = "parse_chrome_json" /\ fn.pc = "call"
    /\ fn' = [fn EXCEPT !.ret = ParseChromeJson(fn.arg), !.pc = "done"]
    /\ UNCHANGED <<parserVars, dispatchVars>>

\* parse_simple_json(data)
CallParseSimpleJson ==
    /\ fn.op = "parse_simple_json" /\ fn.pc = "call"
    /\ fn' = [fn EXCEPT !.ret = ParseSimpleJson(fn.arg), !.pc = "done"]
    /\ UNCHANGED <<parserVars, dispatchVars>>

\* extract_folder_names(folders)
CallExtractFolderNames ==
    /\ fn.op = "extract_folder_names" /\ fn.pc = "call"
    /\ fn' = [fn EXCEPT !.ret = Ok(ExtractFolderNames(fn.arg, "")), !.pc = "done"]
    /\ UNCHANGED <<parserVars, dispatchVars>>

\* folders_to_json(folders): the text written.
CallFoldersToJson ==
    /\ fn.op = "folders_to_json" /\ fn.pc = "call"
    /\ fn' = [fn EXCEPT !.ret = Ok(FoldersToJson(fn.arg)), !.pc = "written"]
    /\ UNCHANGED <<parserVars, dispatchVars>>

\* app/parsers.py parse_bookmarks_file reads the text back.
CallAppParseBookmarksFile ==
    /\ fn.op = "folders_to_json" /\ fn.pc = "written"
    /\ fn' = [fn EXCEPT !.back = AppParseBookmarksFile(fn.ret.value), !.pc = "done"]
    /\ UNCHANGED <<parserVars, dispatchVars>>

NextFn ==
    \/ CallParseNetscapeHtml
    \/ CallParseChromeJson
    \/ CallParseSimpleJson
    \/ CallExtractFolderNames
    \/ CallFoldersToJson
    \/ CallAppParseBookmarksFile

SpecFn == InitFn /\ [][NextFn]_vars

\* ------------------------------------------------ reading the result tree
Refs == 1..Len(parser.heap)

\* Container 0 is the top-level list, container g >= 1 the children of g.
Container(g) == IF g = None THEN parser.folders ELSE parser.heap[g].children

Occurrences(f) ==
    {gi \in (0..Len(parser.heap)) \X (1..MaxFolders) :
        gi[2] <= Len(Container(gi[1])) /\ Container(gi[1])[gi[2]] = f}

RECURSIVE Reach(_, _)
Reach(refs, fuel) ==
    IF fuel = 0 THEN {}
    ELSE {refs[i] : i \in 1..Len(refs)}
         \cup UNION {Reach(parser.heap[refs[i]].children, fuel - 1) : i \in 1..Len(refs)}

InTree == Reach(parser.folders, MaxFolders + 1)

Increasing(s) == \A i, j \in 1..Len(s) : i < j => s[i] < s[j]

ParentOf(f) == CHOOSE g \in 0..Len(parser.heap) : \E i \in 1..Len(Container(g)) : Container(g)[i] = f

\* ------------------------------------------------------------------ claims
\* C1: for a well-balanced H3/DL stream the result nests as the document
\* does: a folder whose H3 lies inside the DL belonging to folder P is a child
\* of P, an H3 outside every folder's DL is top-level, and siblings are in
\* document order.
C1_NestingMirrorsDocument ==
    (doc.balanced /\ doc.open = <<>> /\ ~parser.in_h3) =>
        /\ \A f \in Refs : ParentOf(f) = doc.parent[f]
        /\ \A g \in 0..Len(parser.heap) : Increasing(Container(g))

\* C2: after any sequence of events every created folder occurs exactly once
\* in the result tree, in one container, and every container lists its
\* folders in the order their H3 close events occurred.
C2_AppendedExactlyOnce ==
    /\ \A f \in Refs : Cardinality(Occurrences(f)) = 1 /\ f \in InTree
    /\ \A g \in 0..Len(parser.heap) : Increasing(Container(g))

C2_Witness ==
    /\ Len(parser.heap) = MaxFolders
    /\ ~doc.balanced
    /\ \E g \in Refs : Len(parser.heap[g].children) >= 1

\* C3: leaving a DL pops the stack without reinstating the popped folder as
\* the pending folder, so a DL open that follows with no H3 close in between
\* pushes nothing.
C3_PopDoesNotReinstate ==
    [][ /\ (parser.folder_stack # <<>> /\ parser' = HandleEndTag(parser, "dl")) =>
              /\ parser'.folder_stack =
                    SubSeq(parser.folder_stack, 1, Len(parser.folder_stack) - 1)
              /\ parser'.current_folder # parser.folder_stack[Len(parser.folder_stack)]
        /\ (doc.afterPop /\ parser' = HandleStartTag(parser, "dl")) =>
              parser'.folder_stack = parser.folder_stack ]_vars

\* C4: an unmatched close tag (a DL close on an empty stack, an H3 close with
\* no H3 open) leaves the forest, the stack and the pending folder unchanged.
C4_UnmatchedCloseIsNoOp ==
    [][ ( \/ parser.folder_stack = <<>> /\ parser' = HandleEndTag(parser, "dl")
          \/ ~parser.in_h3 /\ parser' = HandleEndTag(parser, "h3") ) =>
        /\ parser'.folders = parser.folders
        /\ parser'.heap = parser.heap
        /\ parser'.folder_stack = parser.folder_stack
        /\ parser'.current_folder = parser.current_folder ]_vars

\* ------------------------------------------------- claims on the dispatcher
Done == pc = "done"
HtmlSuffixAnyCase ==
    { <<".", "h", "t", "m", "l">>, <<".", "H", "T", "M", "L">>,
      <<".", "h", "t", "m">>, <<".", "H", "t", "m">> }
JsonSuffixAnyCase == { <<".", "j", "s", "o", "n">>, <<".", "J", "S", "O", "N">> }
UnrecognizedSuffix == Suffixes \ (HtmlSuffixAnyCase \cup JsonSuffixAnyCase)
Called(name) == \E i \in 1..Len(out.calls) : out.calls[i] = name
IsDoctypeWord(lex) == lex \in {"<!DOCTYPE", "<!doctype"}
IsMarkerWord(lex) == lex \in {"NETSCAPE-Bookmark-file-1>", "netscape-bookmark-file-1>"}

\* The marker "<!DOCTYPE NETSCAPE-Bookmark-file" as a case-insensitive substring.
HasMarkerSubstring(text) ==
    \E i \in 1..Len(text) :
        /\ i + 2 <= Len(text)
        /\ IsDoctypeWord(text[i]) /\ text[i + 1] = " " /\ IsMarkerWord(text[i + 2])

\* From lexeme k on: one or more white-space lexemes, then the marker word.
RECURSIVE WsRunThenWord(_, _)
WsRunThenWord(text, k) ==
    /\ k + 1 <= Len(text)
    /\ text[k] \in {" ", "\t"}
    /\ (IsMarkerWord(text[k + 1]) \/ WsRunThenWord(text, k + 1))

\* "<!DOCTYPE", white space, "NETSCAPE-Bookmark-file", whatever the letter case.
HasMarkerPattern(text) ==
    \E i \in 1..Len(text) : IsDoctypeWord(text[i]) /\ WsRunThenWord(text, i + 1)

\* The parser the roots-key rule selects for a decoded value.
RootsKeyParser(val) ==
    IF val.t = "obj" /\ (\E i \in 1..Len(val.v) : val.v[i].k = "roots")
    THEN "parse_chrome_json" ELSE "parse_simple_json"

\* C5: every call returns a forest or fails with FileNotFoundError or
\* ValueError (a subclass of it included); no other error escapes.
C5_OnlyTypedFailures ==
    Done => out.raised \in {"none", "FileNotFoundError", "ValueError", "ValidationError"}

\* C6: with an .html or .htm suffix in any letter case only the Netscape
\* parser runs; an empty forest fails with EmptyResult, any other forest is
\* returned unchanged.
C6_HtmlSuffixRunsNetscapeOnly ==
    (Done /\ path_exists /\ suffix \in HtmlSuffixAnyCase) =>
        /\ out.calls = <<"read_text", "parse_netscape_html">>
        /\ IF ParseNetscapeHtml(content) = <<>>
           THEN /\ out.raised = "ValueError"
                /\ out.msg = "No folders found in HTML bookmark file"
           ELSE /\ out.raised = "none"
                /\ out.value = ParseNetscapeHtml(content)

C6_Witness ==
    /\ Done /\ path_exists
    /\ suffix = <<".", "H", "T", "M", "L">>
    /\ out.raised = "none"
    /\ Len(out.value) = 1 /\ Len(out.value[1].children) = 1

\* C7: with a .json suffix in any letter case, undecodable content fails with
\* InvalidFormat; decodable content goes to the Chrome parser exactly when it
\* is an object with a roots key, to the generic parser otherwise, never both.
C7_JsonSuffixBranching ==
    (Done /\ path_exists /\ suffix \in JsonSuffixAnyCase) =>
        LET d == JsonLoads(content) IN
        IF ~d.ok
        THEN /\ out.raised = "ValueError"
             /\ out.msg = "Invalid JSON in bookmark file"
             /\ out.calls = <<"read_text", "json.loads">>
        ELSE out.calls = <<"read_text", "json.loads", RootsKeyParser(d.val)>>

C7_Witness ==
    /\ Done /\ path_exists
    /\ suffix = <<".", "J", "S", "O", "N">>
    /\ Called("parse_chrome_json")
    /\ out.raised = "none" /\ Len(out.value) = 1

\* C8: with an absent or unrecognized suffix the Netscape parser is selected
\* if and only if the content contains "<!DOCTYPE NETSCAPE-Bookmark-file" as a
\* case-insensitive substring, and JSON is tried only when it does not.
C8_SubstringMarker ==
    (Done /\ path_exists /\ suffix \in UnrecognizedSuffix) =>
        /\ Called("parse_netscape_html") <=> HasMarkerSubstring(content)
        /\ Called("json.loads") <=> ~HasMarkerSubstring(content)

\* C8 as amended: the Netscape parser is selected if and only if the content
\* holds "<!DOCTYPE", one or more white-space characters and
\* "NETSCAPE-Bookmark-file", in any letter case; only otherwise is JSON
\* decoded, with the roots-key branching of the .json case.
C8_WhitespaceRunMarker ==
    (Done /\ path_exists /\ suffix \in UnrecognizedSuffix) =>
        IF HasMarkerPattern(content)
        THEN /\ out.calls = <<"read_text", "re.search", "parse_netscape_html">>
             /\ out.raised = "none"
             /\ out.value = ParseNetscapeHtml(content)
        ELSE LET d == JsonLoads(content) IN
             /\ ~Called("parse_netscape_html")
             /\ SubSeq(out.calls, 1, 3) = <<"read_text", "re.search", "json.loads">>
             /\ d.ok => out.calls = <<"read_text", "re.search", "json.loads",
                                      RootsKeyParser(d.val)>>

C8_Witness ==
    /\ Done /\ path_exists
    /\ suffix = <<".", "t", "x", "t">>
    /\ HasMarkerPattern(content) /\ ~HasMarkerSubstring(content)
    /\ Called("parse_netscape_html")
    /\ Len(out.value) = 1

\* C9: with an absent or unrecognized suffix, content that neither holds the
\* doctype marker nor decodes as JSON fails with UnknownFormat, and no parser
\* is invoked.
C9_UnknownFormat ==
    (Done /\ path_exists /\ suffix \in UnrecognizedSuffix
          /\ ~HasMarkerPattern(content) /\ ~JsonLoads(content).ok) =>
        /\ out.raised = "ValueError"
        /\ out.msg = "Cannot detect bookmark format for file"
        /\ out.calls = <<"read_text", "re.search", "json.loads">>

C9_Witness ==
    /\ Done /\ path_exists
    /\ suffix = <<".", "t", "x", "t">>
    /\ content = <<"a", "{">>
    /\ out.msg = "Cannot detect bookmark format for file"

\* C10: a path that does not exist fails with FileNotFound before anything
\* is read, detected or parsed, whatever its suffix.
C10_FileNotFoundFirst ==
    (Done /\ ~path_exists) =>
        /\ out.raised = "FileNotFoundError"
        /\ out.calls = <<>>
        /\ out.value = <<>>

C10_Witness ==
    /\ Done /\ ~path_exists
    /\ suffix = <<".", "j", "s", "o", "n">>
    /\ out.raised = "FileNotFoundError"

\* ------------------------------------------------ claims on the converters
FnDone(op) == fn.op = op /\ fn.pc = "done"

\* A source node whose declared type is folder.
FolderTypedNode(n) ==
    n.t = "obj" /\ HasKey(n, "type") /\ Get(n, "type").t = "str"
        /\ Get(n, "type").v = "folder"

\* The children of a source node, as written in the document.
KidsOf(n) == IF HasKey(n, "children") THEN Get(n, "children").v ELSE <<>>

\* A folder root is empty when none of its children is a folder.
EmptyRoot(n) == \A i \in 1..Len(KidsOf(n)) : ~FolderTypedNode(KidsOf(n)[i])

RootAt(slot) == GetOr(Get(fn.arg, "roots"), slot, JNull)

\* A finished parse_chrome_json call on a document whose roots object holds,
\* in each slot, a node or nothing.
RootsCase ==
    /\ FnDone("parse_chrome_json")
    /\ fn.arg.t = "obj" /\ HasKey(fn.arg, "roots") /\ Get(fn.arg, "roots").t = "obj"
    /\ \A i \in 1..Len(RootNames) : RootAt(RootNames[i]).t \in {"obj", "null"}

RetIds == [i \in 1..Len(fn.ret.value) |-> fn.ret.value[i].id]
SlotIndex(id) == CHOOSE i \in 1..Len(RootNames) : RootNames[i] = id

\* C11: with a roots object, the other root is left out when it is present,
\* empty and named "Other Bookmarks"; every other non-empty folder root is in
\* the result whatever its name; the roots in the result follow the fixed
\* order bookmark_bar, other, synced.
C11_RootsSelection ==
    RootsCase =>
        /\ fn.ret.raised = "none"
        /\ ( /\ FolderTypedNode(RootAt("other")) /\ EmptyRoot(RootAt("other"))
             /\ Get(RootAt("other"), "name").v = "Other Bookmarks" )
              => \A i \in 1..Len(RetIds) : RetIds[i] # "other"
        /\ \A s \in 1..Len(RootNames) :
              (FolderTypedNode(RootAt(RootNames[s])) /\ ~EmptyRoot(RootAt(RootNames[s])))
                => \E i \in 1..Len(RetIds) :
                      /\ RetIds[i] = RootNames[s]
                      /\ fn.ret.value[i].name = Get(RootAt(RootNames[s]), "name").v
        /\ \A i \in 1..Len(RetIds) : \E s \in 1..Len(RootNames) : RetIds[i] = RootNames[s]
        /\ \A i, j \in 1..Len(RetIds) : i < j => SlotIndex(RetIds[i]) < SlotIndex(RetIds[j])

\* An empty "Other Bookmarks" root between two non-empty roots that carry a
\* placeholder name: the result holds the two, in slot order.
C11_Witness ==
    /\ RootsCase
    /\ FolderTypedNode(RootAt("other")) /\ EmptyRoot(RootAt("other"))
    /\ Get(RootAt("other"), "name").v = "Other Bookmarks"
    /\ FolderTypedNode(RootAt("bookmark_bar")) /\ ~EmptyRoot(RootAt("bookmark_bar"))
    /\ Get(RootAt("bookmark_bar"), "name").v = "Other Bookmarks"
    /\ FolderTypedNode(RootAt("synced")) /\ ~EmptyRoot(RootAt("synced"))
    /\ Get(RootAt("synced"), "name").v = "Mobile Bookmarks"
    /\ RetIds = <<"bookmark_bar", "synced">>

\* C12: a document that is itself one folder node (name and children, no
\* roots key) gives a one-element forest: the conversion of that node, with
\* its folder children beneath it.
C12_SingleNodeDocument ==
    ( /\ FnDone("parse_chrome_json")
      /\ FolderTypedNode(fn.arg) /\ ~HasKey(fn.arg, "roots")
      /\ HasKey(fn.arg, "name") /\ HasKey(fn.arg, "children") ) =>
        /\ fn.ret.raised = "none"
        /\ Len(fn.ret.value) = 1
        /\ fn.ret.value[1].name = Get(fn.arg, "name").v
        /\ fn.ret.value[1].id = Get(fn.arg, "id").v
        /\ Len(fn.ret.value[1].children)
              = Cardinality({i \in 1..Len(KidsOf(fn.arg)) : FolderTypedNode(KidsOf(fn.arg)[i])})

\* C13: parse_chrome_json never fails: whatever the document, malformed
\* nodes included, the call returns a forest.
C13_ChromeNeverFails ==
    FnDone("parse_chrome_json") => fn.ret.raised = "none"

\* Nodes that are objects with string id and name (when present) and a list
\* of such nodes as children (when present).
RECURSIVE WellFormedNodes(_)
WellFormedNodes(nodes) ==
    \A i \in 1..Len(nodes) :
        /\ nodes[i].t = "obj"
        /\ HasKey(nodes[i], "id") => Get(nodes[i], "id").t = "str"
        /\ HasKey(nodes[i], "name") => Get(nodes[i], "name").t = "str"
        /\ HasKey(nodes[i], "children") =>
              /\ Get(nodes[i], "children").t = "arr"
              /\ WellFormedNodes(Get(nodes[i], "children").v)

\* Every source node in document order with its depth; ok marks a
\* folder-typed node all of whose ancestors are folder-typed.
RECURSIVE SourceRows(_, _, _)
SourceRows(nodes, depth, ancestorsOk) ==
    IF nodes = <<>> THEN <<>>
    ELSE LET n == Head(nodes)
             ok == ancestorsOk /\ FolderTypedNode(n)
         IN  <<[d |-> depth, node |-> n, ok |-> ok]>>
                \o SourceRows(KidsOf(n), depth + 1, ok)
                \o SourceRows(Tail(nodes), depth, ancestorsOk)

IsKept(row) == row.ok
KeptRows(nodes) == SelectSeq(SourceRows(nodes, 0, TRUE), IsKept)

\* The folders of a result in pre-order with their depth.
RECURSIVE ResultRows(_, _)
ResultRows(folders, depth) ==
    IF folders = <<>> THEN <<>>
    ELSE <<[d |-> depth, id |-> Head(folders).id, name |-> Head(folders).name]>>
            \o ResultRows(Head(folders).children, depth + 1)
            \o ResultRows(Tail(folders), depth)

\* The result holds the kept source nodes, one for one.
SameTree(nodes, folders) ==
    LET src == KeptRows(nodes)
        res == ResultRows(folders, 0)
    IN  /\ Len(res) = Len(src)
        /\ \A k \in 1..Len(src) :
              /\ res[k].d = src[k].d
              /\ HasKey(src[k].node, "id") => res[k].id = Get(src[k].node, "id").v
              /\ res[k].name = IF HasKey(src[k].node, "name")
                               THEN Get(src[k].node, "name").v ELSE "Unnamed"

\* A finished parse_chrome_json call on a well-formed document that exposes a
\* bare children array.
ChildrenCase ==
    /\ FnDone("parse_chrome_json")
    /\ fn.arg.t = "obj" /\ ~HasKey(fn.arg, "roots") /\ HasKey(fn.arg, "children")
    /\ Get(fn.arg, "children").t = "arr"
    /\ WellFormedNodes(Get(fn.arg, "children").v)

\* C14: the conversion keeps exactly the folder-typed nodes all of whose
\* ancestors are folder-typed, in source order, with the id as written when
\* there is one and the name "Unnamed" when there is none; the elements of a
\* bare children array are the top-level candidates, and under a roots object
\* the same holds beneath every root in the result.
C14_KeepsFolderTypedNodes ==
    /\ ChildrenCase =>
          /\ fn.ret.raised = "none"
          /\ SameTree(Get(fn.arg, "children").v, fn.ret.value)
    /\ RootsCase =>
          \A i \in 1..Len(fn.ret.value) :
              SameTree(<<RootAt(fn.ret.value[i].id)>>, <<fn.ret.value[i]>>)

\* A bookmark node with a folder inside, then a folder with neither id nor
\* name: only the second is kept, as "Unnamed".
C14_Witness ==
    /\ ChildrenCase
    /\ Len(Get(fn.arg, "children").v) = 2
    /\ ~FolderTypedNode(Get(fn.arg, "children").v[1])
    /\ \E i \in 1..Len(KidsOf(Get(fn.arg, "children").v[1])) :
          FolderTypedNode(KidsOf(Get(fn.arg, "children").v[1])[i])
    /\ ~HasKey(Get(fn.arg, "children").v[2], "name")
    /\ Len(fn.ret.value) = 1
    /\ fn.ret.value[1].name = "Unnamed"
    /\ fn.ret.value[1].children = <<>>

\* The Folder shape: an object with string id and name and, when it has a
\* children member, a list of values of the same shape.
RECURSIVE FolderShaped(_)
FolderShaped(item) ==
    /\ item.t = "obj"
    /\ HasKey(item, "id") /\ Get(item, "id").t = "str"
    /\ HasKey(item, "name") /\ Get(item, "name").t = "str"
    /\ HasKey(item, "children") =>
          /\ Get(item, "children").t = "arr"
          /\ \A i \in 1..Len(Get(item, "children").v) :
                FolderShaped(Get(item, "children").v[i])

\* Folder f is what the shaped value item says.
RECURSIVE FolderSays(_, _)
FolderSays(f, item) ==
    /\ f.id = Get(item, "id").v
    /\ f.name = Get(item, "name").v
    /\ Len(f.children) = Len(KidsOf(item))
    /\ \A i \in 1..Len(f.children) : FolderSays(f.children[i], KidsOf(item)[i])

\* A finished parse_simple_json call on an array or on one object.
SimpleCase == FnDone("parse_simple_json") /\ fn.arg.t \in {"arr", "obj"}
SimpleElems == IF fn.arg.t = "obj" THEN <<fn.arg>> ELSE fn.arg.v

\* C15: parse_simple_json takes one object as a one-element array and
\* returns, in input order, exactly the elements of the Folder shape; an
\* element that is not is skipped alone.
C15_KeepsValidElements ==
    SimpleCase =>
        LET valid == SelectSeq(SimpleElems, FolderShaped) IN
        /\ fn.ret.raised = "none"
        /\ Len(fn.ret.value) = Len(valid)
        /\ \A k \in 1..Len(valid) : FolderSays(fn.ret.value[k], valid[k])

\* An invalid element between two different valid ones: both are returned,
\* in order.
C15_Witness ==
    /\ SimpleCase /\ fn.arg.t = "arr" /\ Len(fn.arg.v) = 3
    /\ FolderShaped(fn.arg.v[1]) /\ ~FolderShaped(fn.arg.v[2]) /\ FolderShaped(fn.arg.v[3])
    /\ Len(fn.ret.value) = 2
    /\ fn.ret.value[1].id = "x" /\ fn.ret.value[2].id = "id"
    /\ fn.ret.value[1].children # <<>>

\* The names joined by "/".
RECURSIVE JoinNames(_)
JoinNames(names) ==
    IF Len(names) = 1 THEN names[1]
    ELSE names[1] \o "/" \o JoinNames(Tail(names))

\* One path per folder in pre-order: the ancestors' names, then its own.
RECURSIVE PathsUnder(_, _)
PathsUnder(folders, ancestors) ==
    IF folders = <<>> THEN <<>>
    ELSE LET names == Append(ancestors, Head(folders).name) IN
         <<JoinNames(names)>> \o PathsUnder(Head(folders).children, names)
            \o PathsUnder(Tail(folders), ancestors)

\* C16: extract_folder_names gives one path per folder in pre-order, without
\* deduplication, each path being the names of the folder's ancestors and its
\* own name joined by "/", names being free to be empty or repeated.
C16_PathsJoinAncestors ==
    FnDone("extract_folder_names") => fn.ret.value = PathsUnder(fn.arg, <<>>)

\* Every object of a decoded folders_to_json text has a children member.
RECURSIVE CarriesChildren(_)
CarriesChildren(val) ==
    IF val.t = "arr" THEN \A i \in 1..Len(val.v) : CarriesChildren(val.v[i])
    ELSE IF val.t = "obj"
    THEN HasKey(val, "children") /\ CarriesChildren(Get(val, "children"))
    ELSE TRUE

\* C17: reading back what folders_to_json wrote gives the same forest (ids,
\* names, nesting, order), the empty forest included, and every folder
\* object written carries a children member, empty or not.
C17_RoundTrip ==
    FnDone("folders_to_json") =>
        /\ fn.back = Ok(fn.arg)
        /\ JsonLoads(fn.ret.value).ok
        /\ CarriesChildren(JsonLoads(fn.ret.value).val)

\* A forest with a nested folder and a childless one, written and read back.
C17_Witness ==
    /\ FnDone("folders_to_json")
    /\ Len(fn.arg) = 2
    /\ fn.arg[1].children # <<>> /\ fn.arg[2].children = <<>>
    /\ fn.arg[1].id # fn.arg[2].id
    /\ fn.back.raised = "none" /\ fn.back.value = fn.arg

\* C18: in the forest one parse returns (Netscape HTML, Chrome JSON or
\* generic JSON) no two folders have the same id.
C18_IdsUnique ==
    ( /\ fn.pc = "done"
      /\ fn.op \in {"parse_netscape_html", "parse_chrome_json", "parse_simple_json"}
      /\ fn.ret.raised = "none" ) =>
        LET rows == ResultRows(fn.ret.value, 0) IN
        \A i, j \in 1..Len(rows) : i # j => rows[i].id # rows[j].id

IsPrefix(s, t) == Len(s) <= Len(t) /\ SubSeq(t, 1, Len(s)) = s

\* C19 as stated: no parser event changes the id, name or children of a
\* folder that exists.
C19_NeverMutated ==
    [][\A f \in 1..Len(parser.heap) : parser'.heap[f] = parser.heap[f]]_vars

\* C19: no parser event changes the id or name of a folder that exists or
\* removes it; its children, like the top-level list, change only by a new
\* folder being appended at the end.
C19_OnlyAppended ==
    [][ /\ Len(parser'.heap) >= Len(parser.heap)
        /\ IsPrefix(parser.folders, parser'.folders)
        /\ \A f \in 1..Len(parser.heap) :
              /\ parser'.heap[f].id = parser.heap[f].id
              /\ parser'.heap[f].name = parser.heap[f].name
              /\ IsPrefix(parser.heap[f].children, parser'.heap[f].children)
              /\ \A i \in (Len(parser.heap[f].children) + 1)..Len(parser'.heap[f].children) :
                    parser'.heap[f].children[i] > Len(parser.heap) ]_vars

\* A folder created at its H3 close has since been given a child.
C19_Witness ==
    /\ Len(parser.heap) = 2
    /\ parser.heap[1].children = <<2>>
    /\ parser.folders = <<1>>

\* C20: parse_netscape_html on the empty input returns the empty forest and
\* does not fail.
C20_EmptyInput ==
    (FnDone("parse_netscape_html") /\ fn.arg = <<>>) => fn.ret = Ok(<<>>)

\* The call on the empty input has returned, with no folder.
C20_Witness ==
    /\ FnDone("parse_netscape_html") /\ fn.arg = <<>>
    /\ fn.ret.raised = "none" /\ Len(fn.ret.value) = 0

\* ------------------------------------------------- claims on the stack
\* Folder f is an element of container g (None: the top-level list).
DirectChild(f, g) == \E i \in 1..Len(Container(g)) : Container(g)[i] = f

StackTop ==
    IF parser.folder_stack = <<>> THEN None
    ELSE parser.folder_stack[Len(parser.folder_stack)]

\* C21: in every reachable state of the Netscape parser the folder stack is
\* a chain rooted in the result: its bottom is a top-level folder, every
\* other element is a direct child of the one below, no folder is on the
\* stack twice, a pending folder is a direct child of the stack top (a
\* top-level folder when the stack is empty), and no folder is its own
\* descendant.
C21_StackIsChain ==
    LET st == parser.folder_stack IN
    /\ st # <<>> => DirectChild(st[1], None)
    /\ \A i \in 2..Len(st) : DirectChild(st[i], st[i - 1])
    /\ \A i, j \in 1..Len(st) : i # j => st[i] # st[j]
    /\ parser.current_folder # None => DirectChild(parser.current_folder, StackTop)
    /\ \A f \in Refs : f \notin Reach(parser.heap[f].children, Len(parser.heap))

\* A two-folder chain on the stack whose top was popped by a DL close and
\* pushed again by the next DL open.
C21_Witness ==
    /\ parser.folder_stack = <<1, 2>>
    /\ DirectChild(1, None) /\ DirectChild(2, 1)
    /\ parser.current_folder = None
    /\ doc.afterPop
====
